---- MODULE Spec2Model ----
(***************************************************************************)
(* The Wigmore chart component of viktorhex/wigmore as a state machine.    *)
(*                                                                         *)
(* The repository holds three revisions of the WigmoreChart component:     *)
(*   "simple"  src/src/WigmoreChart.tsx  validation, d3 tree layout        *)
(*   "tree"    src/unnamed/part_005      d3 tree plus lateral placement    *)
(*   "walk"    src/unnamed/part_004      edge walk (positionNode)          *)
(* The variable variant says which of them is mounted.  Definitions that   *)
(* model one revision carry its prefix: S_ (simple), T_ (tree), W_ (walk). *)
(*                                                                         *)
(* JavaScript objects live in a heap: h.objs holds the node objects and    *)
(* h.arrs the arrays that children properties point to, so that two        *)
(* objects sharing one children array is a thing the model can say.        *)
(***************************************************************************)
EXTENDS Integers, Sequences, FiniteSets, TLC

VARIABLES
  variant,    \* which revision of the component is mounted
  data,       \* the data prop: the caller's node array and edge array
  heap,       \* the node objects and children arrays
  heap0,      \* the heap as the caller handed it over
  width, height,
  pc,         \* where the render pass stands
  memo,       \* what useMemo returned: nodes, edges, root, nodeMap
  thrown,     \* the exception that ended the pass, "" when none
  rendered,   \* the element the component returned: "nodata" or "svg"
  positions,  \* nodePositions
  occupied,   \* occupiedYLevels
  drawn,      \* the node groups appended to the svg: id, x, y
  renders,    \* how often the component has been rendered again
  previous,   \* what the render before the last re-render had settled on
  parser      \* parseWigmoreText: its lines, its loop position and its locals

vars == <<variant, data, heap, heap0, width, height, pc, memo, thrown, rendered,
          positions, occupied, drawn, renders, previous, parser>>

(* ------------------------------ bounds -------------------------------- *)

MaxNodes == 3
MaxEdges == 3
MaxLayoutEdges == 2
MaxRenders == 2
MaxLines == 4

(* ------------------------- JavaScript values --------------------------- *)

\* undefined / null as an object reference
Undefined == 0

RECURSIVE SeqToSet(_)
SeqToSet(s) == IF s = <<>> THEN {} ELSE {Head(s)} \cup SeqToSet(Tail(s))

\* Array.prototype.includes on an array of object references
Includes(s, x) == \E i \in 1..Len(s) : s[i] = x

\* array.find(node => node.type === 'conclusion'): the index of the first such
\* element, 0 when there is none
FindConclusion(h, s) ==
  IF \E i \in 1..Len(s) : h.objs[s[i]].type = "conclusion"
  THEN CHOOSE i \in 1..Len(s) :
         /\ h.objs[s[i]].type = "conclusion"
         /\ \A j \in 1..(i - 1) : h.objs[s[j]].type # "conclusion"
  ELSE 0

\* A JavaScript Map, which keeps insertion order: a sequence of <<key, value>>
MapHas(m, k) == \E i \in 1..Len(m) : m[i][1] = k
MapGet(m, k) == m[CHOOSE i \in 1..Len(m) : m[i][1] = k][2]
MapSet(m, k, v) ==
  IF MapHas(m, k)
  THEN [i \in 1..Len(m) |-> IF m[i][1] = k THEN <<k, v>> ELSE m[i]]
  ELSE Append(m, <<k, v>>)
MapValues(m) == [i \in 1..Len(m) |-> m[i][2]]
MapKeys(m) == [i \in 1..Len(m) |-> m[i][1]]

(* ------------------------------ numbers -------------------------------- *)

\* Coordinates are rationals <<n, d>> in lowest terms with d > 0: the layout
\* divides by tree depths and halves sibling gaps.
RECURSIVE Gcd(_, _)
Gcd(a, b) == IF b = 0 THEN a ELSE Gcd(b, a % b)
Abs(n) == IF n < 0 THEN -n ELSE n
Norm(n, d) ==
  LET g == Gcd(Abs(n), Abs(d))
      sgn == IF d < 0 THEN -1 ELSE 1
  IN <<(sgn * n) \div g, (sgn * d) \div g>>
Q(n) == <<n, 1>>
QAdd(a, b) == Norm(a[1] * b[2] + b[1] * a[2], a[2] * b[2])
QSub(a, b) == Norm(a[1] * b[2] - b[1] * a[2], a[2] * b[2])
QMul(a, b) == Norm(a[1] * b[1], a[2] * b[2])
QDiv(a, b) == Norm(a[1] * b[2], a[2] * b[1])
QLt(a, b) == a[1] * b[2] < b[1] * a[2]
QLe(a, b) == a[1] * b[2] <= b[1] * a[2]
QAbs(a) == <<Abs(a[1]), a[2]>>
QMin(a, b) == IF QLt(b, a) THEN b ELSE a
QMax(a, b) == IF QLt(a, b) THEN b ELSE a
\* Math.round: the nearest integer, halves rounded up
QRound(a) == (2 * a[1] + a[2]) \div (2 * a[2])
\* Math.round(y / 50) * 50
Level(y) == QRound(QDiv(y, Q(50))) * 50

(* ------------------------------ the heap ------------------------------- *)

EmptyHeap == [objs |-> <<>>, arrs |-> <<>>]

\* the address the next allocation gets
NextObj(h) == Len(h.objs) + 1
NextArr(h) == Len(h.arrs) + 1
AllocObj(h, o) == [h EXCEPT !.objs = Append(@, o)]
AllocArr(h, content) == [h EXCEPT !.arrs = Append(@, content)]
\* array.push(x)
Push(h, arr, x) == [h EXCEPT !.arrs[arr] = Append(@, x)]

\* node.children as a sequence of references (empty when undefined)
ChildrenOf(h, a) ==
  IF h.objs[a].children = Undefined THEN <<>> ELSE h.arrs[h.objs[a].children]

\* the objects reachable from a set of objects along children
RECURSIVE Reach(_, _)
Reach(h, S) ==
  LET T == S \cup UNION { SeqToSet(ChildrenOf(h, a)) : a \in S }
  IN IF T = S THEN S ELSE Reach(h, T)

(* ----------------------- d3-hierarchy, as called ----------------------- *)

RECURSIVE Concat(_)
Concat(ss) == IF ss = <<>> THEN <<>> ELSE Head(ss) \o Concat(Tail(ss))

\* hierarchy(root) never returns when the children links loop back
Cyclic(h, root) ==
  \E a \in Reach(h, {root}) : a \in Reach(h, SeqToSet(ChildrenOf(h, a)))

\* hierarchy(root): one hierarchy node per path from the root, in pre-order; an
\* object under two parents is unfolded once under each
RECURSIVE hierarchy(_, _, _)
hierarchy(h, a, path) ==
  LET kids == ChildrenOf(h, a)
  IN <<[path |-> path, data |-> a, depth |-> Len(path)]>>
       \o Concat([i \in 1..Len(kids) |-> hierarchy(h, kids[i], Append(path, i))])

MaxOf(S) == IF S = {} THEN 0 ELSE CHOOSE x \in S : \A y \in S : y <= x
\* hierarchy(root).height
Height(hn) == MaxOf({ hn[i].depth : i \in 1..Len(hn) })

\* the contour of a laid out forest at a depth: its first (left) and last (right)
\* node of that depth in pre-order, which is where the threads of the tidy tree
\* algorithm lead
AtDepth(ns, d) == SelectSeq(ns, LAMBDA n : n.d = d)
First(s) == s[1]
Last(s) == s[Len(s)]
LeftContour(ns, d) == First(AtDepth(ns, d)).x
RightContour(ns, d) == Last(AtDepth(ns, d)).x
Moved(ns, dx, dd) == [i \in 1..Len(ns) |-> [ns[i] EXCEPT !.x = QAdd(@, dx), !.d = @ + dd]]

\* moveSubtree when shift > 0
Shifted(o, shift) == IF QLt(Q(0), shift) THEN QAdd(o, shift) ELSE o

\* apportion: the subtree v is pushed right until, at every depth it shares with
\* the forest to its left, it keeps the separation of nodes of different parents
RECURSIVE apportion(_, _, _, _, _)
apportion(forest, v, o, d, sepDiff) ==
  IF AtDepth(forest, d) = <<>> \/ AtDepth(v, d) = <<>> THEN o
  ELSE apportion(forest, v,
                 Shifted(o, QAdd(QSub(RightContour(forest, d), QAdd(LeftContour(v, d), o)),
                                 Q(sepDiff))),
                 d + 1, sepDiff)

\* where the k-th child's subtree goes, the earlier ones being at os
Placed(subs, k, os, forest, sepSame, sepDiff) ==
  IF k = 1 THEN Q(0)
  ELSE apportion(forest, subs[k], QAdd(os[k - 1], Q(sepSame)), 1, sepDiff)

\* the children's subtrees placed left to right; forest holds the placed ones
RECURSIVE placeChildren(_, _, _, _, _, _)
placeChildren(subs, k, os, forest, sepSame, sepDiff) ==
  IF k > Len(subs) THEN os
  ELSE placeChildren(subs, k + 1,
                     Append(os, Placed(subs, k, os, forest, sepSame, sepDiff)),
                     forest \o Moved(subs[k], Placed(subs, k, os, forest, sepSame, sepDiff), 0),
                     sepSame, sepDiff)

TreeNode(path, a) == [path |-> path, data |-> a, x |-> Q(0), d |-> 0]

\* secondWalk: the children's subtrees under their parent, which sits at x = 0,
\* centred over its first and last child
secondWalk(path, a, subs, os) ==
  <<TreeNode(path, a)>>
    \o Concat([i \in 1..Len(subs) |->
                 Moved(subs[i], QSub(os[i], QDiv(QAdd(First(os), Last(os)), Q(2))), 1)])

Centred(path, a, subs, sepSame, sepDiff) ==
  IF subs = <<>> THEN <<TreeNode(path, a)>>
  ELSE secondWalk(path, a, subs, placeChildren(subs, 1, <<>>, <<>>, sepSame, sepDiff))

\* firstWalk: the subtree of a laid out with its root at x = 0
RECURSIVE firstWalk(_, _, _, _, _)
firstWalk(h, a, path, sepSame, sepDiff) ==
  Centred(path, a,
          [i \in 1..Len(ChildrenOf(h, a)) |->
             firstWalk(h, ChildrenOf(h, a)[i], Append(path, i), sepSame, sepDiff)],
          sepSame, sepDiff)

\* the first node in pre-order whose x no earlier node undercuts (exceeds)
LeftMost(ns) ==
  CHOOSE i \in 1..Len(ns) :
    /\ \A j \in 1..Len(ns) : QLe(ns[i].x, ns[j].x)
    /\ \A j \in 1..(i - 1) : ns[j].x # ns[i].x
RightMost(ns) ==
  CHOOSE i \in 1..Len(ns) :
    /\ \A j \in 1..Len(ns) : QLe(ns[j].x, ns[i].x)
    /\ \A j \in 1..(i - 1) : ns[j].x # ns[i].x
ParentPath(p) == SubSeq(p, 1, Len(p) - 1)

\* separation(left, right) / 2, or 1 when left and right are one node
HalfSeparation(l, r, sepSame, sepDiff) ==
  IF l.path = r.path THEN Q(1)
  ELSE IF ParentPath(l.path) = ParentPath(r.path)
       THEN QDiv(Q(sepSame), Q(2)) ELSE QDiv(Q(sepDiff), Q(2))

\* the layout scaled to the size: x = (x + tx) * kx, y = depth * ky
Scaled(ns, tx, kx, ky) ==
  [i \in 1..Len(ns) |->
     [path |-> ns[i].path, data |-> ns[i].data, depth |-> ns[i].d,
      x |-> QMul(QAdd(ns[i].x, tx), kx), y |-> QMul(Q(ns[i].d), ky)]]

Deepest(ns) == MaxOf({ ns[i].d : i \in 1..Len(ns) } \cup {1})

sizeNode(ns, l, r, s, dx, dy) ==
  Scaled(ns, QSub(s, l.x), QDiv(dx, QAdd(QAdd(r.x, s), QSub(s, l.x))),
         QDiv(dy, Q(Deepest(ns))))

Sized(ns, dx, dy, sepSame, sepDiff) ==
  sizeNode(ns, ns[LeftMost(ns)], ns[RightMost(ns)],
           HalfSeparation(ns[LeftMost(ns)], ns[RightMost(ns)], sepSame, sepDiff), dx, dy)

\* tree().size([dx, dy]).separation(same parent ? sepSame : sepDiff)(hierarchy(root)):
\* the hierarchy nodes in pre-order, each with its x and y
treeLayout(h, root, dx, dy, sepSame, sepDiff) ==
  Sized(firstWalk(h, root, <<>>, sepSame, sepDiff), dx, dy, sepSame, sepDiff)

\* node.descendants(): breadth-first
descendants(ns) ==
  Concat([k \in 1..(MaxOf({ ns[i].depth : i \in 1..Len(ns) }) + 1) |->
            SelectSeq(ns, LAMBDA n : n.depth = k - 1)])

(* ---------------------- src/src/WigmoreChart.tsx ----------------------- *)

S_NodeTypes == {"evidence", "inference", "conclusion"}
S_EdgeTypes == {"support", "contradict"}

S_validNodes(h, d) ==
  SelectSeq(d.nodes, LAMBDA a : h.objs[a].id # "" /\ h.objs[a].type \in S_NodeTypes)

S_validNodeIds(h, d) == { h.objs[a].id : a \in SeqToSet(S_validNodes(h, d)) }

S_validEdges(h, d) ==
  SelectSeq(d.edges, LAMBDA e : /\ e.type \in S_EdgeTypes
                                /\ e.source \in S_validNodeIds(h, d)
                                /\ e.target \in S_validNodeIds(h, d))

\* validNodes.forEach(node => nodeMap.set(node.id, { ...node, children: [] }))
RECURSIVE S_nodeMap(_, _, _)
S_nodeMap(st, vn, i) ==
  IF i > Len(vn) THEN st
  ELSE LET node == st.h.objs[vn[i]]
           h1   == AllocArr(st.h, <<>>)
           copy == [node EXCEPT !.children = NextArr(st.h)]
           h2   == AllocObj(h1, copy)
       IN S_nodeMap([h |-> h2, nodeMap |-> MapSet(st.nodeMap, node.id, NextObj(h1))],
                    vn, i + 1)

\* validEdges.forEach: the source becomes a child of the target
RECURSIVE S_buildHierarchy(_, _, _, _)
S_buildHierarchy(h, nodeMap, ve, i) ==
  IF i > Len(ve) THEN h
  ELSE LET e == ve[i]
           linked == MapHas(nodeMap, e.source) /\ MapHas(nodeMap, e.target)
           sourceNode == MapGet(nodeMap, e.source)
           targetNode == MapGet(nodeMap, e.target)
           h1 == IF linked /\ ~Includes(ChildrenOf(h, targetNode), sourceNode)
                 THEN Push(h, h.objs[targetNode].children, sourceNode)
                 ELSE h
       IN S_buildHierarchy(h1, nodeMap, ve, i + 1)

\* validNodes.find(node => node.type === 'conclusion')?.id || validNodes[0].id
\* reads validNodes[0].id when no conclusion is found: a TypeError on an empty list
S_rootThrows(h, d) ==
  LET vn == S_validNodes(h, d)
  IN FindConclusion(h, vn) = 0 /\ vn = <<>>

S_rootId(h, d) ==
  LET vn == S_validNodes(h, d)
      c  == FindConclusion(h, vn)
  IN IF c # 0 THEN h.objs[vn[c]].id ELSE h.objs[vn[1]].id

S_useMemo(h, d) ==
  LET st == S_nodeMap([h |-> h, nodeMap |-> <<>>], S_validNodes(h, d), 1)
      h2 == S_buildHierarchy(st.h, st.nodeMap, S_validEdges(h, d), 1)
  IN IF S_rootThrows(h, d)
     THEN [h |-> h2, thrown |-> "TypeError", nodes |-> <<>>, edges |-> <<>>,
           root |-> Undefined, nodeMap |-> <<>>]
     ELSE [h |-> h2, thrown |-> "", nodes |-> MapValues(st.nodeMap),
           edges |-> S_validEdges(h, d),
           root |-> MapGet(st.nodeMap, S_rootId(h, d)), nodeMap |-> st.nodeMap]

\* ---- the effect of WigmoreChart.tsx: the tree layout is drawn as it is ----

S_chartWidth(w) == Q(w - 50 - 50)
S_chartHeight(ht) == Q(ht - 50 - 50)

\* rootHierarchy.descendants(), each drawn at translate(d.x, d.y)
S_nodeGroups(h, ds) ==
  [i \in 1..Len(ds) |-> [id |-> h.objs[ds[i].data].id, x |-> ds[i].x, y |-> ds[i].y]]
S_drawNodes(h, root, w, ht) ==
  S_nodeGroups(h, descendants(treeLayout(h, root, S_chartWidth(w), S_chartHeight(ht), 3, 4)))

(* ------------------------ src/unnamed/part_005 ------------------------- *)

\* data.nodes.forEach(node => nodeMap.set(node.id, { ...node, children: node.children || [] }))
RECURSIVE T_nodeMap(_, _, _)
T_nodeMap(st, ns, i) ==
  IF i > Len(ns) THEN st
  ELSE LET node  == st.h.objs[ns[i]]
           fresh == node.children = Undefined
           h1    == IF fresh THEN AllocArr(st.h, <<>>) ELSE st.h
           copy  == IF fresh THEN [node EXCEPT !.children = NextArr(st.h)] ELSE node
           h2    == AllocObj(h1, copy)
       IN T_nodeMap([h |-> h2, nodeMap |-> MapSet(st.nodeMap, node.id, NextObj(h1))],
                    ns, i + 1)

T_supportEdges(d) == SelectSeq(d.edges, LAMBDA e : e.type = "support")

RECURSIVE T_buildHierarchy(_, _, _, _)
T_buildHierarchy(h, nodeMap, se, i) ==
  IF i > Len(se) THEN h
  ELSE LET e == se[i]
           linked == MapHas(nodeMap, e.source) /\ MapHas(nodeMap, e.target)
           sourceNode == MapGet(nodeMap, e.source)
           targetNode == MapGet(nodeMap, e.target)
           h1 == IF linked /\ ~Includes(ChildrenOf(h, targetNode), sourceNode)
                 THEN Push(h, h.objs[targetNode].children, sourceNode)
                 ELSE h
       IN T_buildHierarchy(h1, nodeMap, se, i + 1)

\* data.nodes.find(node => node.type === 'conclusion')!.id : a TypeError when none
T_conclusionIndex(h, d) == FindConclusion(h, d.nodes)
T_conclusionThrows(h, d) == T_conclusionIndex(h, d) = 0

\* the refute sources that do not already hold the conclusion as a child
T_refuteNodes(h, d, nodeMap, conclusionNode) ==
  LET refs  == SelectSeq(d.edges, LAMBDA e : e.type = "refute")
      found == SelectSeq(refs, LAMBDA e : MapHas(nodeMap, e.source))
      srcs  == [i \in 1..Len(found) |-> MapGet(nodeMap, found[i].source)]
  IN SelectSeq(srcs, LAMBDA a :
       ~\E k \in 1..Len(ChildrenOf(h, a)) :
           h.objs[ChildrenOf(h, a)[k]].id = h.objs[conclusionNode].id)

\* refuteNodes.forEach: each becomes a child of the conclusion
RECURSIVE T_attachRefuteNodes(_, _, _, _)
T_attachRefuteNodes(h, conclusionNode, rn, i) ==
  IF i > Len(rn) THEN h
  ELSE LET h1 == IF ~Includes(ChildrenOf(h, conclusionNode), rn[i])
                 THEN Push(h, h.objs[conclusionNode].children, rn[i])
                 ELSE h
       IN T_attachRefuteNodes(h1, conclusionNode, rn, i + 1)

T_useMemo(h, d) ==
  LET st == T_nodeMap([h |-> h, nodeMap |-> <<>>], d.nodes, 1)
      h2 == T_buildHierarchy(st.h, st.nodeMap, T_supportEdges(d), 1)
  IN IF T_conclusionThrows(h, d)
     THEN [h |-> h2, thrown |-> "TypeError", nodes |-> <<>>, edges |-> <<>>,
           root |-> Undefined, nodeMap |-> <<>>]
     ELSE LET conclusionNode ==
                MapGet(st.nodeMap, h.objs[d.nodes[T_conclusionIndex(h, d)]].id)
              h3 == T_attachRefuteNodes(h2, conclusionNode,
                      T_refuteNodes(h2, d, st.nodeMap, conclusionNode), 1)
              \* updatedRoot = { ...rootNode, children: [...rootNode.children] }
              h4 == AllocArr(h3, ChildrenOf(h3, conclusionNode))
              h5 == AllocObj(h4, [h3.objs[conclusionNode] EXCEPT !.children = NextArr(h3)])
          IN [h |-> h5, thrown |-> "", nodes |-> MapValues(st.nodeMap),
              edges |-> d.edges, root |-> NextObj(h4), nodeMap |-> st.nodeMap]

\* ---- the effect of part_005: the layout ----

T_chartWidth(w) == Q(w - 300 - 300)
T_chartHeight(ht) == Q(ht - 200 - 200)

\* chartHeight / (maxDepth + 2)
T_levelHeight(h, root, ht) ==
  QDiv(T_chartHeight(ht), Q(Height(hierarchy(h, root, <<>>)) + 2))

Pos(x, y) == [x |-> x, y |-> y]

\* while (occupiedYLevels.has(Math.round(y / 50) * 50)) y += 50
RECURSIVE FreeLevel(_, _)
FreeLevel(y, occ) == IF Level(y) \in occ THEN FreeLevel(QAdd(y, Q(50)), occ) ELSE y

\* while (allXPositionsAtY.some(x => Math.abs(x - adjustedX) < 100)) adjustedX += 50
RECURSIVE FreeX(_, _)
FreeX(x, xs) ==
  IF \E k \in 1..Len(xs) : QLt(QAbs(QSub(xs[k], x)), Q(100))
  THEN FreeX(QAdd(x, Q(50)), xs) ELSE x

\* treeData.descendants().forEach(d => nodePositions.set(d.data.id, {x: d.x, y: d.y + levelHeight * 2}))
RECURSIVE T_setTreePositions(_, _, _, _, _)
T_setTreePositions(h, pos, ds, i, lh) ==
  IF i > Len(ds) THEN pos
  ELSE T_setTreePositions(h,
         MapSet(pos, h.objs[ds[i].data].id,
                Pos(ds[i].x, QAdd(ds[i].y, QMul(lh, Q(2))))),
         ds, i + 1, lh)

\* new Set(Array.from(nodePositions.values()).map(pos => Math.round(pos.y / 50) * 50))
T_occupiedYLevels(pos) == { Level(pos[k][2].y) : k \in 1..Len(pos) }
T_positioned(pos) == [pos |-> pos, occ |-> T_occupiedYLevels(pos)]
T_treePass(h, root, w, ht) ==
  T_positioned(
    T_setTreePositions(h, <<>>,
      descendants(treeLayout(h, root, T_chartWidth(w), T_chartHeight(ht), 12, 15)),
      1, T_levelHeight(h, root, ht)))

T_explainEdges(edges) == SelectSeq(edges, LAMBDA e : e.type = "explain")
T_refuteEdges(edges) == SelectSeq(edges, LAMBDA e : e.type = "refute")

\* (i - (explainEdges.length - 1) / 2) * explainStagger, n being explainEdges.length
T_explainOffset(i, n, lh) == QMul(QSub(Q(i), QDiv(Q(n - 1), Q(2))), lh)

\* explainEdges.forEach((edge, i) => ...), i counted from 0
RECURSIVE T_explainPass(_, _, _, _, _)
T_explainPass(st, ee, i, lh, ch) ==
  IF i >= Len(ee) THEN st
  ELSE LET edge == ee[i + 1]
       IN IF ~MapHas(st.pos, edge.target) THEN T_explainPass(st, ee, i + 1, lh, ch)
          ELSE LET targetPos == MapGet(st.pos, edge.target)
                   offset    == T_explainOffset(i, Len(ee), lh)
                   staggerY  == FreeLevel(QAdd(targetPos.y, offset), st.occ)
                   clampedY  == QMin(staggerY, ch)
               IN T_explainPass(
                    [pos |-> MapSet(st.pos, edge.source,
                                    Pos(QAdd(targetPos.x, Q(-300)), clampedY)),
                     occ |-> st.occ \cup {Level(staggerY)}],
                    ee, i + 1, lh, ch)

\* sourceNode.children.forEach((child, childIndex) => ...), childIndex from 0
RECURSIVE T_placeChildren(_, _, _, _, _, _, _)
T_placeChildren(h, st, kids, ci, adjustedX, clampedY, lh) ==
  IF ci >= Len(kids) THEN st
  ELSE LET childY == QAdd(clampedY, QMul(lh, Q(ci + 1)))
           childX == QAdd(adjustedX, Q((ci + 1) * 50))
       IN T_placeChildren(h,
            [pos |-> MapSet(st.pos, h.objs[kids[ci + 1]].id, Pos(childX, childY)),
             occ |-> st.occ \cup {Level(childY)}],
            kids, ci + 1, adjustedX, clampedY, lh)

\* the x the refute pass starts from for the edge of index i: 200 + i * 150
T_refuteOffsetX(i) == 200 + (i * 150)

\* one refute edge: the body of refuteEdges.forEach((edge, i) => ...)
T_refuteStep(h, nodeMap, st, edge, i, lh, ch) ==
  IF ~(MapHas(st.pos, edge.target) /\ MapHas(st.pos, edge.source)) THEN st
  ELSE LET targetPos == MapGet(st.pos, edge.target)
           sourcePos == MapGet(st.pos, edge.source)
           nodesAtSamePosition ==
             SelectSeq(st.pos, LAMBDA en :
               /\ en[1] # edge.source
               /\ QLt(QAbs(QSub(en[2].x, sourcePos.x)), Q(10))
               /\ QLt(QAbs(QSub(en[2].y, sourcePos.y)), Q(10)))
           moved     == Len(nodesAtSamePosition) > 0
           adjustedY == IF moved THEN FreeLevel(QAdd(sourcePos.y, Q(50)), st.occ)
                        ELSE sourcePos.y
           occ1      == IF moved THEN st.occ \cup {Level(adjustedY)} ELSE st.occ
           atY       == SelectSeq(st.pos, LAMBDA en :
                          QLt(QAbs(QSub(en[2].y, adjustedY)), Q(10)))
           allXPositionsAtY == [k \in 1..Len(atY) |-> atY[k][2].x]
           adjustedX == FreeX(QAdd(targetPos.x, Q(T_refuteOffsetX(i))), allXPositionsAtY)
           clampedY  == QMin(adjustedY, ch)
           st1       == [pos |-> MapSet(st.pos, edge.source, Pos(adjustedX, clampedY)),
                         occ |-> occ1]
       IN IF MapHas(nodeMap, edge.source)
          THEN T_placeChildren(h, st1, ChildrenOf(h, MapGet(nodeMap, edge.source)), 0,
                               adjustedX, clampedY, lh)
          ELSE st1

RECURSIVE T_refutePass(_, _, _, _, _, _, _)
T_refutePass(h, nodeMap, st, re, i, lh, ch) ==
  IF i >= Len(re) THEN st
  ELSE T_refutePass(h, nodeMap, T_refuteStep(h, nodeMap, st, re[i + 1], i, lh, ch),
                    re, i + 1, lh, ch)

\* const x2Pos = nodePositions.get('X2') || { x: 400, y: 400 }; then R2 and E3 are set
T_anchor(st, lh) ==
  LET x2Pos == IF MapHas(st.pos, "X2") THEN MapGet(st.pos, "X2") ELSE Pos(Q(400), Q(400))
      p1 == MapSet(st.pos, "R2", Pos(QAdd(x2Pos.x, Q(200)), x2Pos.y))
      p2 == MapSet(p1, "E3", Pos(QAdd(x2Pos.x, Q(250)), QAdd(x2Pos.y, lh)))
  IN [pos |-> p2, occ |-> st.occ]

\* Math.abs(pos1.x - pos2.x) < 50 && Math.abs(pos1.y - pos2.y) < 50
T_near(pos1, pos2) ==
  /\ QLt(QAbs(QSub(pos1.x, pos2.x)), Q(50))
  /\ QLt(QAbs(QSub(pos1.y, pos2.y)), Q(50))

\* the body of the inner loop for the pair (i, j): entry j is set one step to
\* the right, on the first free level below
T_globalStep(st, positionArray, i, j) ==
  IF T_near(positionArray[i][2], positionArray[j][2])
  THEN [pos |-> MapSet(st.pos, positionArray[j][1],
                       Pos(QAdd(positionArray[j][2].x, Q(50)),
                           FreeLevel(QAdd(positionArray[j][2].y, Q(50)), st.occ))),
        occ |-> st.occ \cup {Level(FreeLevel(QAdd(positionArray[j][2].y, Q(50)), st.occ))}]
  ELSE st

\* the pairwise pass over positionArray, the entries as they were before the pass
RECURSIVE T_globalPass(_, _, _, _)
T_globalPass(st, positionArray, i, j) ==
  IF i > Len(positionArray) THEN st
  ELSE IF j > Len(positionArray) THEN T_globalPass(st, positionArray, i + 1, i + 2)
  ELSE T_globalPass(T_globalStep(st, positionArray, i, j), positionArray, i, j + 1)

\* a final pass that leaves x as it is
T_clampX_kept(x, cw) == x

\* nodePositions.forEach: every coordinate clamped to the chart
T_clampX(x, cw) == QMax(Q(0), QMin(x, cw))
T_clampY(y, ch) == QMax(Q(0), QMin(y, ch))
T_clamp(pos, cw, ch) ==
  [k \in 1..Len(pos) |-> <<pos[k][1], Pos(T_clampX(pos[k][2].x, cw), T_clampY(pos[k][2].y, ch))>>]

(* ------------------------ src/unnamed/part_004 ------------------------- *)

\* new Map(data.nodes.map(node => [node.id, { ...node }]))
RECURSIVE W_nodeMap(_, _, _)
W_nodeMap(st, ns, i) ==
  IF i > Len(ns) THEN st
  ELSE LET node == st.h.objs[ns[i]]
           h1   == AllocObj(st.h, node)
       IN W_nodeMap([h |-> h1, nodeMap |-> MapSet(st.nodeMap, node.id, NextObj(st.h))],
                    ns, i + 1)

W_useMemo(h, d) ==
  LET st == W_nodeMap([h |-> h, nodeMap |-> <<>>], d.nodes, 1)
  IN [h |-> st.h, thrown |-> "", nodes |-> d.nodes, edges |-> d.edges,
      root |-> Undefined, nodeMap |-> st.nodeMap]

\* nodes.find(node => node.type === 'conclusion') || nodes[0]
W_conclusionNode(h, nodes) ==
  LET c == FindConclusion(h, nodes)
  IN IF c # 0 THEN nodes[c] ELSE nodes[1]

\* ---- the effect of part_004: the edge walk ----

W_chartWidth(w) == Q(w - 300 - 300)
W_chartHeight(ht) == Q(ht - 200 - 200)
nodeSpacing == 50
horizontalOffset == 200

\* while (occupiedYLevels.has(Math.round(y / nodeSpacing) * nodeSpacing)) y += nodeSpacing
RECURSIVE W_freeLevel(_, _)
W_freeLevel(y, occ) ==
  IF QRound(QDiv(y, Q(nodeSpacing))) * nodeSpacing \in occ
  THEN W_freeLevel(QAdd(y, Q(nodeSpacing)), occ) ELSE y

\* (index - edges.filter(explain edges of the target).length / 2) * nodeSpacing
W_explainOffset(index, count) == QMul(QSub(Q(index), QDiv(Q(count), Q(2))), Q(nodeSpacing))

\* where positionNode puts the source of edge, before clamping
W_place(c, occ, parentPos, edge, index) ==
  IF edge.type = "support"
  THEN Pos(parentPos.x, W_freeLevel(QAdd(parentPos.y, Q(nodeSpacing)), occ))
  ELSE IF edge.type = "explain"
  THEN LET count == Len(SelectSeq(c.edges, LAMBDA e :
                          e.type = "explain" /\ e.target = edge.target))
       IN Pos(QSub(parentPos.x, Q(horizontalOffset)),
              W_freeLevel(QAdd(parentPos.y, W_explainOffset(index, count)), occ))
  ELSE IF edge.type = "refute"
  THEN Pos(QAdd(parentPos.x, Q(horizontalOffset + (index * nodeSpacing))),
           W_freeLevel(parentPos.y, occ))
  ELSE Pos(parentPos.x, QAdd(parentPos.y, Q(nodeSpacing)))

W_clamp(p, cw, ch) == Pos(QMax(Q(0), QMin(p.x, cw)), QMax(Q(0), QMin(p.y, ch)))

\* positionNode, and the forEach over the edges that point at a node; st holds
\* nodePositions, occupiedYLevels and processedNodes
RECURSIVE W_positionNode(_, _, _, _, _, _)
RECURSIVE W_positionEach(_, _, _, _, _)
W_positionNode(c, st, nodeId, parentPos, edge, index) ==
  IF nodeId \in st.proc THEN st
  ELSE LET st1 == [st EXCEPT !.proc = @ \cup {nodeId}]
       IN IF ~MapHas(c.nodeMap, nodeId) THEN st1
          ELSE LET p == W_clamp(W_place(c, st1.occ, parentPos, edge, index), c.cw, c.ch)
                   st2 == [pos |-> MapSet(st1.pos, nodeId, p),
                           occ |-> st1.occ \cup
                                     {QRound(QDiv(p.y, Q(nodeSpacing))) * nodeSpacing},
                           proc |-> st1.proc]
               IN W_positionEach(c, st2,
                    SelectSeq(c.edges, LAMBDA e : e.target = nodeId), 0, p)
W_positionEach(c, st, es, i, parentPos) ==
  IF i >= Len(es) THEN st
  ELSE W_positionEach(c,
         W_positionNode(c, st, es[i + 1].source, parentPos, es[i + 1], i),
         es, i + 1, parentPos)

W_layout(h, nodes, edges, nodeMap, w, ht) ==
  LET c   == [edges |-> edges, nodeMap |-> nodeMap,
              cw |-> W_chartWidth(w), ch |-> W_chartHeight(ht)]
      cid == h.objs[W_conclusionNode(h, nodes)].id
      p0  == Pos(QDiv(W_chartWidth(w), Q(2)), Q(0))
  IN W_positionEach(c, [pos |-> <<<<cid, p0>>>>, occ |-> {0}, proc |-> {cid}],
                    SelectSeq(edges, LAMBDA e : e.target = cid), 0, p0)

\* nodes.map(node => nodePositions.get(node.id) || origin), part_004 and part_005
drawNodes(h, nodes, pos) ==
  [i \in 1..Len(nodes) |->
     LET id == h.objs[nodes[i]].id
     IN IF MapHas(pos, id)
        THEN [id |-> id, x |-> MapGet(pos, id).x, y |-> MapGet(pos, id).y]
        ELSE [id |-> id, x |-> Q(0), y |-> Q(0)]]

(* ------------------------------ the input ------------------------------ *)

\* A node the caller passes: kids are the ids of the objects in the children
\* array it already carries (has = FALSE: no children property).
Node(id, type) == [id |-> id, type |-> type, has |-> FALSE, kids |-> <<>>]
NodeWith(id, type, kids) == [id |-> id, type |-> type, has |-> TRUE, kids |-> kids]
Edge(source, target, type) == [source |-> source, target |-> target, type |-> type]

NodePool ==
  { Node("C1", "conclusion"), NodeWith("C1", "conclusion", <<"E1">>),
    Node("C2", "conclusion"), Node("E1", "evidence"), Node("R1", "refutation"),
    Node("", "evidence"), Node("B1", "witness") }

EdgePool ==
  { Edge("E1", "C1", "support"), Edge("E1", "C2", "support"),
    Edge("C2", "C1", "support"), Edge("E1", "C1", "contradict"),
    Edge("R1", "C1", "refute"), Edge("E1", "B1", "support") }

\* the sequences over S of length at most n
SeqsUpTo(S, n) == UNION { [1..k -> S] : k \in 0..n }
NoRepeat(s) == \A i, j \in 1..Len(s) : i # j => s[i] # s[j]

NodeLists == { s \in SeqsUpTo(NodePool, MaxNodes) : NoRepeat(s) }
EdgeLists == SeqsUpTo(EdgePool, MaxEdges)

\* the caller's objects, allocated in list order
RECURSIVE AllocKids(_, _, _)
AllocKids(st, kids, i) ==
  IF i > Len(kids) THEN st
  ELSE AllocKids([h |-> AllocObj(st.h, [id |-> kids[i], type |-> "evidence",
                                        children |-> Undefined]),
                  refs |-> Append(st.refs, NextObj(st.h))], kids, i + 1)

RECURSIVE BuildInput(_, _, _)
BuildInput(st, ns, i) ==
  IF i > Len(ns) THEN st
  ELSE LET t  == ns[i]
           k  == AllocKids([h |-> st.h, refs |-> <<>>], t.kids, 1)
           h1 == IF t.has THEN AllocArr(k.h, k.refs) ELSE st.h
           o  == [id |-> t.id, type |-> t.type,
                  children |-> IF t.has THEN NextArr(k.h) ELSE Undefined]
       IN BuildInput([h |-> AllocObj(h1, o), nodes |-> Append(st.nodes, NextObj(h1))],
                     ns, i + 1)

\* the data the two App components hand to the chart
ScenarioNodes ==
  << Node("E1", "evidence"), Node("E2", "evidence"), Node("I1", "inference"),
     Node("C1", "conclusion"), Node("E3", "evidence") >>
ScenarioEdges ==
  << Edge("E1", "I1", "support"), Edge("E2", "I1", "support"),
     Edge("I1", "C1", "support"), Edge("E3", "I1", "contradict") >>

AppNodes ==
  << Node("C1", "conclusion"), Node("E1", "evidence"), Node("E2", "evidence"),
     Node("E3", "evidence"), Node("X1", "explanation"), Node("X2", "explanation"),
     Node("R1", "refutation"), Node("R2", "refutation") >>
AppEdges ==
  << Edge("E1", "C1", "support"), Edge("X1", "C1", "explain"),
     Edge("X2", "C1", "explain"), Edge("R1", "X1", "refute"),
     Edge("R2", "X2", "refute"), Edge("E2", "R1", "support"),
     Edge("E3", "R2", "support") >>

Shipped == { <<ScenarioNodes, ScenarioEdges>>, <<AppNodes, AppEdges>> }

(* ------------------------------ the machine ---------------------------- *)

Variants == {"simple", "tree", "walk"}
\* the walk revision builds no hierarchy
HasBuilder == variant \in {"simple", "tree"}

NoMemo == [nodes |-> <<>>, edges |-> <<>>, root |-> Undefined, nodeMap |-> <<>>]

\* parseWigmoreText has not been called
NoParser == [copy |-> "none", lines |-> <<>>, next |-> 0]

NoPrevious == [by |-> "none", pos |-> <<>>, drawn |-> <<>>, width |-> 0, height |-> 0]

\* the component is mounted with the graph <<ns, es>> and the given size
Mounted(v, ns, es, w, ht) ==
  LET in == BuildInput([h |-> EmptyHeap, nodes |-> <<>>], ns, 1)
  IN /\ variant = v
     /\ data = [nodes |-> in.nodes, edges |-> es]
     /\ heap = in.h
     /\ heap0 = in.h
     /\ width = w
     /\ height = ht
     /\ pc = "render"
     /\ memo = NoMemo
     /\ thrown = ""
     /\ rendered = "none"
     /\ positions = <<>>
     /\ occupied = {}
     /\ drawn = <<>>
     /\ renders = 0
     /\ previous = NoPrevious
     /\ parser = NoParser

InitHierarchy ==
  \E v \in Variants :
    \/ \E ns \in NodeLists, es \in EdgeLists : Mounted(v, ns, es, 1000, 800)
    \/ \E g \in Shipped : Mounted(v, g[1], g[2], 1000, 800)

useMemo(v, h, d) ==
  CASE v = "simple" -> S_useMemo(h, d)
    [] v = "tree"   -> T_useMemo(h, d)
    [] v = "walk"   -> W_useMemo(h, d)

\* The component function: useMemo, then the element it returns.  An exception
\* thrown by the useMemo callback leaves the component unrendered.
Render ==
  /\ pc = "render"
  /\ LET r == useMemo(variant, heap, data)
     IN /\ heap' = r.h
        /\ thrown' = r.thrown
        /\ memo' = [nodes |-> r.nodes, edges |-> r.edges, root |-> r.root,
                    nodeMap |-> r.nodeMap]
        /\ IF r.thrown # ""
           THEN /\ pc' = "crashed"
                /\ rendered' = "none"
           ELSE /\ pc' = "effect"
                /\ rendered' = IF Len(r.nodes) = 0 THEN "nodata" ELSE "svg"
  /\ UNCHANGED <<variant, data, heap0, width, height, positions, occupied, drawn,
                 renders, previous, parser>>

\* if (!svgRef.current || !root || nodes.length === 0) return;  (part_004 has no root)
EffectReturnsEarly ==
  \/ rendered # "svg"
  \/ HasBuilder /\ memo.root = Undefined
  \/ Len(memo.nodes) = 0

frame == <<variant, data, heap, heap0, width, height, memo, thrown, rendered,
           renders, previous, parser>>

EffectSkipped ==
  /\ pc = "effect"
  /\ EffectReturnsEarly
  /\ pc' = "settled"
  /\ UNCHANGED <<frame, positions, occupied, drawn>>

\* hierarchy(root) on children links that loop back does not return
EffectHangs ==
  /\ pc = "effect"
  /\ ~EffectReturnsEarly
  /\ HasBuilder
  /\ Cyclic(heap, memo.root)
  /\ pc' = "hung"
  /\ UNCHANGED <<frame, positions, occupied, drawn>>

S_Effect ==
  /\ pc = "effect"
  /\ ~EffectReturnsEarly
  /\ variant = "simple"
  /\ ~Cyclic(heap, memo.root)
  /\ drawn' = S_drawNodes(heap, memo.root, width, height)
  /\ pc' = "settled"
  /\ UNCHANGED <<frame, positions, occupied>>

W_Effect ==
  /\ pc = "effect"
  /\ ~EffectReturnsEarly
  /\ variant = "walk"
  /\ LET st == W_layout(heap, memo.nodes, memo.edges, memo.nodeMap, width, height)
     IN /\ positions' = st.pos
        /\ occupied' = st.occ
  /\ pc' = "draw"
  /\ UNCHANGED <<frame, drawn>>

T_TreePass ==
  /\ pc = "effect"
  /\ ~EffectReturnsEarly
  /\ variant = "tree"
  /\ ~Cyclic(heap, memo.root)
  /\ LET st == T_treePass(heap, memo.root, width, height)
     IN /\ positions' = st.pos
        /\ occupied' = st.occ
  /\ pc' = "explain"
  /\ UNCHANGED <<frame, drawn>>

levelHeight == T_levelHeight(heap, memo.root, height)

T_ExplainPass ==
  /\ pc = "explain"
  /\ LET st == T_explainPass([pos |-> positions, occ |-> occupied],
                             T_explainEdges(memo.edges), 0, levelHeight,
                             T_chartHeight(height))
     IN /\ positions' = st.pos
        /\ occupied' = st.occ
  /\ pc' = "refute"
  /\ UNCHANGED <<frame, drawn>>

T_RefutePass ==
  /\ pc = "refute"
  /\ LET st == T_refutePass(heap, memo.nodeMap, [pos |-> positions, occ |-> occupied],
                            T_refuteEdges(memo.edges), 0, levelHeight,
                            T_chartHeight(height))
     IN /\ positions' = st.pos
        /\ occupied' = st.occ
  /\ pc' = "anchor"
  /\ UNCHANGED <<frame, drawn>>

T_Anchor ==
  /\ pc = "anchor"
  /\ positions' = T_anchor([pos |-> positions, occ |-> occupied], levelHeight).pos
  /\ pc' = "global"
  /\ UNCHANGED <<frame, occupied, drawn>>

T_GlobalPass ==
  /\ pc = "global"
  /\ LET st == T_globalPass([pos |-> positions, occ |-> occupied], positions, 1, 2)
     IN /\ positions' = st.pos
        /\ occupied' = st.occ
  /\ pc' = "clamp"
  /\ UNCHANGED <<frame, drawn>>

T_Clamp ==
  /\ pc = "clamp"
  /\ positions' = T_clamp(positions, T_chartWidth(width), T_chartHeight(height))
  /\ pc' = "draw"
  /\ UNCHANGED <<frame, occupied, drawn>>

Draw ==
  /\ pc = "draw"
  /\ drawn' = drawNodes(heap, memo.nodes, positions)
  /\ pc' = "settled"
  /\ UNCHANGED <<frame, positions, occupied>>

NextHierarchy == Render

SpecHierarchy == InitHierarchy /\ [][NextHierarchy]_vars

\* ---- the whole render pass, on the graphs the layout cases need ----

LayoutNodePool ==
  << Node("C1", "conclusion"), Node("X2", "explanation"), Node("R1", "refutation"),
     Node("R2", "refutation"), Node("E3", "evidence") >>

LayoutEdgePool ==
  { Edge("E3", "C1", "support"), Edge("E3", "R1", "support"),
    Edge("X2", "C1", "explain"), Edge("E3", "C1", "explain"),
    Edge("E3", "X2", "explain"),
    Edge("R1", "X2", "refute"), Edge("R2", "C1", "refute"),
    Edge("R1", "C1", "refute"), Edge("C1", "X2", "refute") }

\* the sub-lists of a list, order kept
RECURSIVE SubLists(_)
SubLists(s) ==
  IF s = <<>> THEN {<<>>}
  ELSE LET rest == SubLists(Tail(s))
       IN rest \cup { <<Head(s)>> \o r : r \in rest }

LayoutNodeLists == { s \in SubLists(LayoutNodePool) : Len(s) <= MaxNodes }
LayoutEdgeLists == SeqsUpTo(LayoutEdgePool, MaxLayoutEdges)

\* <<width, height>>: what App.tsx passes, the defaults of part_005, and two
\* charts smaller than their margins (one with a chart height between -50 and 0)
Sizes == { <<1000, 800>>, <<1400, 4000>>, <<500, 300>>, <<640, 360>> }

\* ---- the component rendered again ----

Settled(by) ==
  [by |-> by, pos |-> positions, drawn |-> drawn, width |-> width, height |-> height]

\* The component is mounted once more with the same data prop and the same size:
\* useMemo and the effect run again, on the objects as the first run left them.
Remount ==
  /\ pc = "settled"
  /\ renders < MaxRenders
  /\ renders' = renders + 1
  /\ previous' = Settled("remount")
  /\ pc' = "render"
  /\ memo' = NoMemo
  /\ thrown' = ""
  /\ rendered' = "none"
  /\ positions' = <<>>
  /\ occupied' = {}
  /\ drawn' = <<>>
  /\ UNCHANGED <<variant, data, heap, heap0, width, height, parser>>

\* the dependency list of the effect: [nodes, edges, root, width, height] in
\* WigmoreChart.tsx, [nodes, edges, root, nodeMap] in part_005, [nodes, edges,
\* nodeMap] in part_004
EffectDependsOnSize == variant = "simple"

\* The parent passes another width and height.  useMemo depends on [data] and keeps
\* its result; the effect runs again only if its dependency list names the size.
Resize ==
  /\ pc = "settled"
  /\ renders < MaxRenders
  /\ \E sz \in Sizes :
       /\ sz # <<width, height>>
       /\ width' = sz[1]
       /\ height' = sz[2]
  /\ renders' = renders + 1
  /\ previous' = Settled("resize")
  /\ IF EffectDependsOnSize
     THEN /\ pc' = "effect"
          /\ positions' = <<>>
          /\ occupied' = {}
          /\ drawn' = <<>>
     ELSE UNCHANGED <<pc, positions, occupied, drawn>>
  /\ UNCHANGED <<variant, data, heap, heap0, memo, thrown, rendered, parser>>

\* a refutation that is supported through a chain: R1 refutes C1, E2 supports R1,
\* E3 supports E2
ChainNodes ==
  << Node("C1", "conclusion"), Node("R1", "refutation"), Node("E2", "evidence"),
     Node("E3", "evidence") >>
ChainEdges ==
  << Edge("R1", "C1", "refute"), Edge("E2", "R1", "support"), Edge("E3", "E2", "support") >>

Init ==
  \E v \in Variants, sz \in Sizes :
    \/ \E ns \in LayoutNodeLists, es \in LayoutEdgeLists : Mounted(v, ns, es, sz[1], sz[2])
    \/ \E g \in Shipped \cup {<<ChainNodes, ChainEdges>>} :
          Mounted(v, g[1], g[2], sz[1], sz[2])

Next ==
  \/ Render
  \/ EffectSkipped
  \/ EffectHangs
  \/ S_Effect
  \/ W_Effect
  \/ T_TreePass
  \/ T_ExplainPass
  \/ T_RefutePass
  \/ T_Anchor
  \/ T_GlobalPass
  \/ T_Clamp
  \/ Draw

Spec == Init /\ [][Next]_vars

\* ---- the render pass followed by further renders ----

\* a caller's graph in which the conclusion already carries a children array
CarriedNodes == << Node("E1", "evidence"), NodeWith("C1", "conclusion", <<"E1">>) >>
CarriedEdges == << Edge("E1", "C1", "support") >>

RerenderGraphs ==
  (LayoutNodeLists \X SeqsUpTo(LayoutEdgePool, 1))
    \cup Shipped \cup {<<ChainNodes, ChainEdges>>, <<CarriedNodes, CarriedEdges>>}

InitRerender ==
  \E v \in Variants, sz \in Sizes, g \in RerenderGraphs :
    Mounted(v, g[1], g[2], sz[1], sz[2])

NextRerender == Next \/ Remount \/ Resize

SpecRerender == InitRerender /\ [][NextRerender]_vars

(* ---------------------------- parseWigmoreText ------------------------- *)

\* A JavaScript string is a sequence of characters.  A word without white
\* space and without a separator ("evidence", "E1") is written as one element.
WhiteSpace == {" ", "\n"}

\* String.prototype.trim
RECURSIVE trim(_)
trim(s) ==
  IF s = <<>> THEN s
  ELSE IF Head(s) \in WhiteSpace THEN trim(Tail(s))
  ELSE IF s[Len(s)] \in WhiteSpace THEN trim(SubSeq(s, 1, Len(s) - 1))
  ELSE s

\* String.prototype.split(sep): at least one piece, the empty string included
RECURSIVE split(_, _)
split(s, sep) ==
  IF \E i \in 1..(Len(s) - Len(sep) + 1) : SubSeq(s, i, i + Len(sep) - 1) = sep
  THEN LET i == CHOOSE k \in 1..(Len(s) - Len(sep) + 1) :
                  /\ SubSeq(s, k, k + Len(sep) - 1) = sep
                  /\ \A j \in 1..(k - 1) : SubSeq(s, j, j + Len(sep) - 1) # sep
       IN <<SubSeq(s, 1, i - 1)>> \o split(SubSeq(s, i + Len(sep), Len(s)), sep)
  ELSE <<s>>

\* line.split(sep).map(s => s.trim())
splitTrimmed(s, sep) == LET ps == split(s, sep) IN [k \in 1..Len(ps) |-> trim(ps[k])]

\* the k-th element of a destructured array is there and is a non-empty string
Truthy(parts, k) == k <= Len(parts) /\ parts[k] # <<>>
\* [...].includes(parts[k]), false for undefined
OneOf(parts, k, words) == k <= Len(parts) /\ parts[k] \in { <<w>> : w \in words }

P_NodeTypes(copy) ==
  IF copy = "part_003"
  THEN {"evidence", "inference", "conclusion", "explanation", "refutation"}
  ELSE {"evidence", "inference", "conclusion"}
P_EdgeTypes(copy) ==
  IF copy = "part_003" THEN {"support", "explain", "refute"} ELSE {"support", "contradict"}

\* attributes.forEach(attr => ...) on a node: source and belief, the last one wins
\* (the middle dot of the belief markers is written as a full stop)
RECURSIVE P_nodeAttributes(_, _, _)
P_nodeAttributes(node, parts, k) ==
  IF k > Len(parts) THEN node
  ELSE LET kv == splitTrimmed(parts[k], <<":">>)
           n1 == IF kv[1] = <<"source">> /\ OneOf(kv, 2, {"*", "q"})
                 THEN [node EXCEPT !.source = kv[2]] ELSE node
           n2 == IF kv[1] = <<"belief">> /\ OneOf(kv, 2, {"?", ".", "..", "-", "oo"})
                 THEN [n1 EXCEPT !.belief = kv[2]] ELSE n1
       IN P_nodeAttributes(n2, parts, k + 1)

\* attributes.forEach(attr => ...) on an edge: strength
RECURSIVE P_edgeAttributes(_, _, _)
P_edgeAttributes(edge, parts, k) ==
  IF k > Len(parts) THEN edge
  ELSE LET kv == splitTrimmed(parts[k], <<":">>)
       IN P_edgeAttributes(
            IF kv[1] = <<"strength">> /\ OneOf(kv, 2, {"strong", "weak"})
            THEN [edge EXCEPT !.strength = kv[2]] ELSE edge,
            parts, k + 1)

\* if (isNodesSection) { ... nodes.push(...) }
P_nodesSection(copy, nodes, line) ==
  LET parts == splitTrimmed(line, <<"|">>)
  IN IF Truthy(parts, 1) /\ Truthy(parts, 2) /\ OneOf(parts, 3, P_NodeTypes(copy))
     THEN Append(nodes,
            IF copy = "part_003"
            THEN P_nodeAttributes([id |-> parts[1], label |-> parts[2], type |-> parts[3],
                                   source |-> <<>>, belief |-> <<>>], parts, 4)
            ELSE [id |-> parts[1], label |-> parts[2], type |-> parts[3]])
     ELSE nodes

\* if (isEdgesSection) { ... edges.push(...) }
P_edgesSection(copy, edges, line) ==
  LET parts == splitTrimmed(line, <<"|">>)
      st    == splitTrimmed(parts[1], <<"-", ">">>)
  IN IF Truthy(st, 1) /\ Truthy(st, 2) /\ OneOf(parts, 2, P_EdgeTypes(copy))
     THEN Append(edges,
            IF copy = "part_003"
            THEN P_edgeAttributes([source |-> st[1], target |-> st[2], type |-> parts[2],
                                   strength |-> <<>>], parts, 3)
            ELSE [source |-> st[1], target |-> st[2], type |-> parts[2]])
     ELSE edges

NodesMarker == <<"Nodes", ":">>
EdgesMarker == <<"Edges", ":">>

\* line === 'Edges:': the edges section alone is on
P_enterEdges_keepNodes(st) == [st EXCEPT !.isEdgesSection = TRUE]

\* line === 'Nodes:' and line === 'Edges:'
P_enterNodes(st) == [st EXCEPT !.isNodesSection = TRUE, !.isEdgesSection = FALSE]
P_enterEdges(st) == [st EXCEPT !.isNodesSection = FALSE, !.isEdgesSection = TRUE]

\* sourceTarget.split('->') is a TypeError when sourceTarget is undefined
P_raises(st, line) == st.isEdgesSection /\ Len(split(line, <<"|">>)) = 0

\* the rest of the loop body, for a line that is no marker
P_record(st, line) ==
  IF P_raises(st, line) THEN [st EXCEPT !.raised = TRUE]
  ELSE [st EXCEPT
          !.nodes = IF st.isNodesSection THEN P_nodesSection(st.copy, @, line) ELSE @,
          !.edges = IF st.isEdgesSection THEN P_edgesSection(st.copy, @, line) ELSE @]

\* what the line just scanned added to nodes and to edges
Scanned(before, after) ==
  [after EXCEPT !.next = @ + 1,
                !.produced = Append(@, [node |-> Len(after.nodes) > Len(before.nodes),
                                        edge |-> Len(after.edges) > Len(before.edges)])]

\* the lines a text can hold
LinePool ==
  { NodesMarker, EdgesMarker, <<" ", "Nodes", ":">>,
    <<"E1", "|", "Fact", "|", "evidence">>,
    <<"E1", " ", "|", " ", "Seen", "|", "inference", "|", "source", ":", "*">>,
    <<"X1", "|", "Why", "|", "explanation", "|", "belief", ":", " ", "?">>,
    <<"E1", "-", ">", "X1", "|", "support">>,
    <<"E1", " ", "-", ">", " ", "Z9", "|", "refute", "|", "strength", ":", "strong">> }

\* the lines joined by line feeds
RECURSIVE Text(_)
Text(ls) ==
  IF ls = <<>> THEN <<>>
  ELSE IF Len(ls) = 1 THEN ls[1]
  ELSE ls[1] \o <<"\n">> \o Text(Tail(ls))

Texts == { Text(ls) : ls \in SeqsUpTo(LinePool, MaxLines) }
Copies == {"part_003", "WigmoreChart.tsx"}

\* const lines = text.trim().split('\n'), the locals as declared
P_called(copy, text) ==
  [copy |-> copy, lines |-> split(trim(text), <<"\n">>), next |-> 1,
   isNodesSection |-> FALSE, isEdgesSection |-> FALSE,
   nodes |-> <<>>, edges |-> <<>>, produced |-> <<>>, raised |-> FALSE,
   returned |-> FALSE]

chart == <<variant, data, heap, heap0, width, height, pc, memo, thrown, rendered,
           positions, occupied, drawn, renders, previous>>

InitParser ==
  /\ \E copy \in Copies, text \in Texts : parser = P_called(copy, text)
  /\ variant = "none"
  /\ data = [nodes |-> <<>>, edges |-> <<>>]
  /\ heap = EmptyHeap
  /\ heap0 = EmptyHeap
  /\ width = 0
  /\ height = 0
  /\ pc = "parse"
  /\ memo = NoMemo
  /\ thrown = ""
  /\ rendered = "none"
  /\ positions = <<>>
  /\ occupied = {}
  /\ drawn = <<>>
  /\ renders = 0
  /\ previous = NoPrevious

Scanning == pc = "parse" /\ ~parser.raised /\ parser.next <= Len(parser.lines)

P_NodesMarker ==
  /\ Scanning
  /\ parser.lines[parser.next] = NodesMarker
  /\ parser' = Scanned(parser, P_enterNodes(parser))
  /\ UNCHANGED chart

P_EdgesMarker ==
  /\ Scanning
  /\ parser.lines[parser.next] = EdgesMarker
  /\ parser' = Scanned(parser, P_enterEdges(parser))
  /\ UNCHANGED chart

P_Line ==
  /\ Scanning
  /\ parser.lines[parser.next] \notin {NodesMarker, EdgesMarker}
  /\ parser' = Scanned(parser, P_record(parser, parser.lines[parser.next]))
  /\ UNCHANGED chart

P_Return ==
  /\ pc = "parse"
  /\ ~parser.raised
  /\ parser.next > Len(parser.lines)
  /\ ~parser.returned
  /\ parser' = [parser EXCEPT !.returned = TRUE]
  /\ UNCHANGED chart

NextParser == P_NodesMarker \/ P_EdgesMarker \/ P_Line \/ P_Return

SpecParser == InitParser /\ [][NextParser]_vars

(* --------------------- the hierarchy builder's result ------------------ *)

\* useMemo has returned (Built) or thrown (pc = "crashed")
Built == pc = "effect"
Returned == pc \in {"effect", "crashed"}

Valid5(o) ==
  o.id # "" /\ o.type \in {"evidence", "inference", "conclusion", "explanation", "refutation"}

\* the nodes the mounted revision itself lets through
OwnValidNodes ==
  IF variant = "simple" THEN S_validNodes(heap0, data) ELSE data.nodes
RecognizedEdgeTypes ==
  IF variant = "simple" THEN S_EdgeTypes ELSE {"support", "explain", "refute"}

InputWellFormed == \A i \in 1..Len(data.nodes) : Valid5(heap0.objs[data.nodes[i]])
InputCarriesNone == \A i \in 1..Len(data.nodes) : heap0.objs[data.nodes[i]].children = Undefined
InputIdsDistinct ==
  \A i, j \in 1..Len(data.nodes) :
    i # j => heap0.objs[data.nodes[i]].id # heap0.objs[data.nodes[j]].id

KeptIds == { heap.objs[a].id : a \in SeqToSet(memo.nodes) }
ChildIds(a) == { heap.objs[c].id : c \in SeqToSet(ChildrenOf(heap, a)) }
\* the node objects of the hierarchy: the lookup's copies and the returned root
HierarchyNodes == SeqToSet(memo.nodes) \cup (IF memo.root = Undefined THEN {} ELSE {memo.root})

ValidatedEdge(e) ==
  e.type \in RecognizedEdgeTypes /\ e.source \in KeptIds /\ e.target \in KeptIds
SupportSources(id) ==
  { e.source : e \in { x \in SeqToSet(data.edges) :
                         ValidatedEdge(x) /\ x.type = "support" /\ x.target = id } }

\* the root a revision lays the chart out from
RootId ==
  IF HasBuilder THEN heap.objs[memo.root].id
  ELSE heap.objs[W_conclusionNode(heap, memo.nodes)].id
ExpectedRootId ==
  LET vl == OwnValidNodes
      c  == FindConclusion(heap0, vl)
  IN IF c # 0 THEN heap0.objs[vl[c]].id ELSE heap0.objs[vl[1]].id

ParentsIn(h, R, a) == { p \in R : Includes(ChildrenOf(h, p), a) }
IsTree(h, root) ==
  LET R == Reach(h, {root})
  IN /\ ParentsIn(h, R, root) = {}
     /\ \A a \in R \ {root} : Cardinality(ParentsIn(h, R, a)) = 1
     /\ \A a, b \in R : a # b => h.objs[a].id # h.objs[b].id

(* ------------------------------- claims -------------------------------- *)

\* C1: after the hierarchy builder has run, the children of every node N are
\* exactly the sources of the validated support edges whose target is N; the
\* source of an edge of another type is in no children list.
C1_ChildrenAreSupportSources ==
  (Built /\ HasBuilder /\ InputCarriesNone /\ InputIdsDistinct) =>
    \A a \in HierarchyNodes : ChildIds(a) = SupportSources(heap.objs[a].id)

\* C2: for a non-empty validated node list the builder returns as root the
\* first conclusion node in input order, or the first validated node when
\* there is no conclusion node, and raises nothing. Stated for input nodes
\* with distinct non-empty ids and types of the closed set.
C2_RootIsFirstConclusionOrFirstNode ==
  (Returned /\ OwnValidNodes # <<>> /\ InputIdsDistinct /\ InputWellFormed) =>
    (thrown = "" /\ RootId = ExpectedRootId)

\* C3: when no node survives validation the component ends in the "no data"
\* state and no exception is raised.
C3_NoDataWhenNothingValid ==
  (Returned /\ OwnValidNodes = <<>>) => (thrown = "" /\ rendered = "nodata")

\* C4: every edge handed on to layout and drawing has a recognized type and
\* both its endpoints among the kept node ids.
C4_EdgesHandedOnAreValidated ==
  Built => \A i \in 1..Len(memo.edges) : ValidatedEdge(memo.edges[i])

\* C5: the node list returned holds exactly the input nodes with a non-empty
\* id and a type of the closed set of five.
C5_NodeListIsTheValidNodes ==
  (Built /\ InputIdsDistinct) =>
    { <<heap.objs[a].id, heap.objs[a].type>> : a \in SeqToSet(memo.nodes) }
      = { <<heap0.objs[a].id, heap0.objs[a].type>> :
            a \in { x \in SeqToSet(data.nodes) : Valid5(heap0.objs[x]) } }

\* C6: no node id appears twice in the children list of one parent.
C6_NoDuplicateChild ==
  (Built /\ HasBuilder) =>
    \A a \in HierarchyNodes :
      \A i, j \in 1..Len(ChildrenOf(heap, a)) :
        i # j => heap.objs[ChildrenOf(heap, a)[i]].id # heap.objs[ChildrenOf(heap, a)[j]].id

\* C7: building the hierarchy leaves the caller's node objects and the children
\* arrays they carry as they were.
C7_InputUnchanged ==
  Returned =>
    /\ \A a \in 1..Len(heap0.objs) : heap.objs[a] = heap0.objs[a]
    /\ \A r \in 1..Len(heap0.arrs) : heap.arrs[r] = heap0.arrs[r]

\* C8: the hierarchy is a tree: the root has no parent, every other node
\* reachable from it has exactly one parent, and no id occurs twice among the
\* root's descendants.
C8_HierarchyIsTree ==
  (Built /\ HasBuilder /\ InputCarriesNone /\ InputIdsDistinct) => IsTree(heap, memo.root)

(* --------------------------- the laid out chart ------------------------ *)

\* the drawing area of part_005 and part_004: the requested size minus the margins
chartWidth == T_chartWidth(width)
chartHeight == T_chartHeight(height)

\* the position map is final: the last pass that writes it has run
LayoutFinished == rendered = "svg" /\ pc \in {"draw", "settled"} /\ positions # <<>>

WithinChart(p) ==
  /\ QLe(Q(0), p.x) /\ QLe(p.x, chartWidth)
  /\ QLe(Q(0), p.y) /\ QLe(p.y, chartHeight)

\* the refute edges handed to the layout, by their index in the edge list, whose
\* endpoints are nodes of the chart that the layout has placed
PositionedRefute(i) ==
  /\ memo.edges[i].type = "refute"
  /\ {memo.edges[i].source, memo.edges[i].target} \subseteq KeptIds
  /\ MapHas(positions, memo.edges[i].source)
  /\ MapHas(positions, memo.edges[i].target)

\* C9: once the layout has finished, every entry of the position map lies in the
\* chart, 0 <= x <= chartWidth and 0 <= y <= chartHeight, provided the requested
\* size leaves a chart, that is chartWidth >= 0 and chartHeight >= 0.
C9_PositionsWithinChart ==
  (LayoutFinished /\ QLe(Q(0), chartWidth) /\ QLe(Q(0), chartHeight)) =>
    \A k \in 1..Len(positions) : WithinChart(positions[k][2])

\* a finished layout of part_005 in which the final pass pulled an entry back to
\* the right border of a chart of positive size
C9_ClampedToBorder ==
  /\ LayoutFinished /\ variant = "tree"
  /\ QLt(Q(0), chartWidth) /\ QLt(Q(0), chartHeight)
  /\ \E k \in 1..Len(positions) : positions[k][2].x = chartWidth

\* C9 as the specification words it: the same for every requested width and
\* height, also those smaller than the margins.
C9_PositionsWithinChartAnySize ==
  LayoutFinished => \A k \in 1..Len(positions) : WithinChart(positions[k][2])

\* C10: of two refute edges with the same target and different sources, the source
\* of the later edge ends strictly further right than the source of the earlier.
C10_RefuteSourcesFanOut ==
  LayoutFinished =>
    \A i, j \in 1..Len(memo.edges) :
      ( /\ i < j
        /\ PositionedRefute(i) /\ PositionedRefute(j)
        /\ memo.edges[i].target = memo.edges[j].target
        /\ memo.edges[i].source # memo.edges[j].source ) =>
        QLt(MapGet(positions, memo.edges[i].source).x,
            MapGet(positions, memo.edges[j].source).x)

(* ------------------------- the explain placement ----------------------- *)

\* the explain edges handed to the layout that share the target of edge number i
ExplainSiblings(i) ==
  { j \in 1..Len(memo.edges) :
      memo.edges[j].type = "explain" /\ memo.edges[j].target = memo.edges[i].target }
\* the place of edge number i among them, counted from 0
ExplainRank(i) == Cardinality({ j \in ExplainSiblings(i) : j < i })
\* (rank - (k - 1) / 2) * stagger: what makes the k offsets sum to zero
SymmetricOffset(i, stagger) ==
  QMul(QSub(Q(ExplainRank(i)), QDiv(Q(Cardinality(ExplainSiblings(i)) - 1), Q(2))), stagger)

\* the index part_005 counts edge number i by: its place among all explain edges
T_explainIndex(i) ==
  Cardinality({ j \in 1..(i - 1) : memo.edges[j].type = "explain" })
\* the index part_004 counts edge number i by: its place among the edges of any
\* type that point at the same target
W_childIndex(i) ==
  Cardinality({ j \in 1..(i - 1) : memo.edges[j].target = memo.edges[i].target })

\* an explain edge between nodes of the chart whose source the layout has put at
\* the fixed offset left of its target or at the left border
PlacedExplain(i) ==
  /\ memo.edges[i].type = "explain"
  /\ {memo.edges[i].source, memo.edges[i].target} \subseteq KeptIds
  /\ memo.edges[i].source # memo.edges[i].target
  /\ MapHas(positions, memo.edges[i].source)
  /\ MapHas(positions, memo.edges[i].target)

\* the offset the mounted revision adds to the target's y for edge number i
ExplainOffsetUsed(i) ==
  IF variant = "tree"
  THEN T_explainOffset(T_explainIndex(i), Len(T_explainEdges(memo.edges)), levelHeight)
  ELSE W_explainOffset(W_childIndex(i), Cardinality(ExplainSiblings(i)))
ExplainStagger == IF variant = "tree" THEN levelHeight ELSE Q(nodeSpacing)

\* C11: the source of the i-th explain edge of a target with k explain edges is
\* put, before any collision shift, at the target's y plus (i - (k-1)/2) * stagger,
\* so that the k offsets of one target sum to zero.
C11_ExplainOffsetsSymmetric ==
  (LayoutFinished /\ variant \in {"tree", "walk"}) =>
    \A i \in 1..Len(memo.edges) :
      PlacedExplain(i) => ExplainOffsetUsed(i) = SymmetricOffset(i, ExplainStagger)

(* -------------------------- the refute placement ----------------------- *)

\* the refute pass of part_005 has just run on a chart of positive size
RefutePassDone ==
  /\ variant = "tree" /\ pc = "anchor"
  /\ QLt(Q(0), chartWidth) /\ QLt(Q(0), chartHeight)

\* c lies strictly below and strictly to the right of p in the position map
BelowRight(p, c) ==
  /\ MapHas(positions, heap.objs[p].id) /\ MapHas(positions, heap.objs[c].id)
  /\ QLt(MapGet(positions, heap.objs[p].id).x, MapGet(positions, heap.objs[c].id).x)
  /\ QLt(MapGet(positions, heap.objs[p].id).y, MapGet(positions, heap.objs[c].id).y)

\* C12: after the refute pass every node of the support subtree of a placed
\* refutation source, at any depth, lies strictly below and strictly to the right
\* of its own parent in that subtree.
C12_RefuteSubtreeBelowRight ==
  RefutePassDone =>
    \A i \in 1..Len(memo.edges) :
      PositionedRefute(i) =>
        \A p \in Reach(heap, {MapGet(memo.nodeMap, memo.edges[i].source)}) :
          \A k \in 1..Len(ChildrenOf(heap, p)) : BelowRight(p, ChildrenOf(heap, p)[k])

(* ------------------------- rendering once more ------------------------- *)

\* the layout of part_005 from the tree pass to the final clamp, pass by pass
T_lateral(h, m, st, lh, ch) ==
  T_anchor(T_refutePass(h, m.nodeMap, T_explainPass(st, T_explainEdges(m.edges), 0, lh, ch),
                        T_refuteEdges(m.edges), 0, lh, ch),
           lh)
T_resolved(st, cw, ch) ==
  IF st.pos = <<>> THEN <<>>
  ELSE T_clamp(T_globalPass(st, st.pos, 1, 2).pos, cw, ch)
T_layout(h, m, w, ht) ==
  T_resolved(T_lateral(h, m, T_treePass(h, m.root, w, ht),
                       T_levelHeight(h, m.root, ht), T_chartHeight(ht)),
             T_chartWidth(w), T_chartHeight(ht))

\* the node groups the effect of the mounted revision draws for the current
\* graph at the current width and height
DrawnForCurrentSize ==
  CASE variant = "simple" -> S_drawNodes(heap, memo.root, width, height)
    [] variant = "tree"   -> drawNodes(heap, memo.nodes, T_layout(heap, memo, width, height))
    [] variant = "walk"   ->
         drawNodes(heap, memo.nodes,
                   W_layout(heap, memo.nodes, memo.edges, memo.nodeMap, width, height).pos)

\* the render has settled with a chart drawn
SettledDrawn == pc = "settled" /\ rendered = "svg" /\ drawn # <<>>

\* C13: hierarchy building and layout run a second time on the same graph and
\* the same dimensions settle on the position map the first run settled on.
C13_SecondRunSamePositions ==
  (pc = "settled" /\ renders = 1 /\ previous.by = "remount") => positions = previous.pos

\* C15: once the render has settled, the drawn positions are those the layout
\* computes for the current graph and the current width and height, also after
\* the width or height has changed.
C15_DrawnForCurrentSize ==
  SettledDrawn => drawn = DrawnForCurrentSize


(* ------------------- C14: a lookup that finds no entry ------------------- *)

Origin == Pos(Q(0), Q(0))

\* the position a lookup of id is to use under the claim: the entry, else the origin
PositionOrOrigin(pos, id) == IF MapHas(pos, id) THEN MapGet(pos, id) ELSE Origin

\* part_005 after line 185: the map has no 'X2' entry (lines 183-185 add none),
\* so the lookup of 'X2' on line 183 missed
AnchorLookupMissed == variant = "tree" /\ pc = "global" /\ ~MapHas(positions, "X2")

\* the drawing has been made from a position map that lacks some node's id
DrawnWithoutEntry(i) ==
  /\ variant \in {"tree", "walk"}
  /\ pc = "settled"
  /\ i \in 1..Len(drawn)
  /\ ~MapHas(positions, drawn[i].id)

\* C14: every lookup of a position for an id without an entry in the position
\* map takes the origin (0, 0): the 'X2' lookup of the layout, from which 'R2'
\* and 'E3' are placed at +200 and at +250 / one level down, and the lookup of
\* every node when it is drawn; no other coordinate is substituted.
C14_LookupMissUsesOrigin ==
  /\ AnchorLookupMissed =>
       /\ MapGet(positions, "R2") =
            Pos(QAdd(PositionOrOrigin(positions, "X2").x, Q(200)),
                PositionOrOrigin(positions, "X2").y)
       /\ MapGet(positions, "E3") =
            Pos(QAdd(PositionOrOrigin(positions, "X2").x, Q(250)),
                QAdd(PositionOrOrigin(positions, "X2").y, levelHeight))
  /\ \A i \in 1..Len(drawn) :
       DrawnWithoutEntry(i) => (drawn[i].x = Q(0) /\ drawn[i].y = Q(0))

(* ------------------- C16: the y of the tree pass ------------------------ *)

\* the tree pass has run: part_005 holds its position map before the explain
\* pass, WigmoreChart.tsx has drawn the tree layout as it is
TreePassDone ==
  \/ variant = "tree" /\ pc = "explain"
  \/ variant = "simple" /\ pc = "settled" /\ drawn # <<>>

\* the y values the tree pass left for an id
TreePassYs(id) ==
  IF variant = "tree"
  THEN { positions[k][2].y : k \in { j \in 1..Len(positions) : positions[j][1] = id } }
  ELSE { drawn[k].y : k \in { j \in 1..Len(drawn) : drawn[j].id = id } }

SupportHierarchy == hierarchy(heap, memo.root, <<>>)
HierarchyId(n) == heap.objs[n.data].id
IsParentOf(p, n) == Len(n.path) = Len(p.path) + 1 /\ SubSeq(n.path, 1, Len(p.path)) = p.path

\* C16: in the position map of the tree pass the root has y = 0, every other
\* node of the support hierarchy has a y strictly greater than its parent's,
\* and nodes at the same depth have the same y.
C16_TreePassLevels ==
  TreePassDone =>
    \A i \in 1..Len(SupportHierarchy) :
      /\ SupportHierarchy[i].depth = 0 =>
           TreePassYs(HierarchyId(SupportHierarchy[i])) = {Q(0)}
      /\ \A j \in 1..Len(SupportHierarchy) :
           /\ IsParentOf(SupportHierarchy[j], SupportHierarchy[i]) =>
                \A yp \in TreePassYs(HierarchyId(SupportHierarchy[j])),
                   y \in TreePassYs(HierarchyId(SupportHierarchy[i])) : QLt(yp, y)
           /\ SupportHierarchy[j].depth = SupportHierarchy[i].depth =>
                TreePassYs(HierarchyId(SupportHierarchy[j])) =
                  TreePassYs(HierarchyId(SupportHierarchy[i]))

(* ------------------------ C17, C18: the parser -------------------------- *)

ParsedNodeIds == { parser.nodes[k].id : k \in 1..Len(parser.nodes) }

\* C17: the output of parseWigmoreText has pairwise distinct node ids, and
\* every edge of the output has its source and its target among those ids.
C17_ParsedGraphWellFormed ==
  (pc = "parse" /\ parser.returned) =>
    /\ \A i, j \in 1..Len(parser.nodes) :
         parser.nodes[i].id = parser.nodes[j].id => i = j
    /\ \A k \in 1..Len(parser.edges) :
         parser.edges[k].source \in ParsedNodeIds /\ parser.edges[k].target \in ParsedNodeIds

IsMarker(line) == line \in {NodesMarker, EdgesMarker}

\* the most recent marker line before line k, <<>> when there is none
LastMarker(lines, k) ==
  IF \E j \in 1..(k - 1) : IsMarker(lines[j])
  THEN lines[CHOOSE j \in 1..(k - 1) :
               IsMarker(lines[j]) /\ \A m \in (j + 1)..(k - 1) : ~IsMarker(lines[m])]
  ELSE <<>>

\* C18: while the lines are scanned at most one section is active; a line
\* produces a node record only if the most recent marker line was 'Nodes:',
\* an edge record only if it was 'Edges:', nothing before the first marker;
\* a marker line produces no record; no line raises.
C18_SectionsFollowMarkers ==
  pc = "parse" =>
    /\ ~(parser.isNodesSection /\ parser.isEdgesSection)
    /\ ~parser.raised
    /\ \A k \in 1..Len(parser.produced) :
         /\ parser.produced[k].node => LastMarker(parser.lines, k) = NodesMarker
         /\ parser.produced[k].edge => LastMarker(parser.lines, k) = EdgesMarker
         /\ IsMarker(parser.lines[k]) => ~parser.produced[k].node /\ ~parser.produced[k].edge

\* parseWigmoreText has returned after a node record from the nodes section
\* and an edge record from the edges section
C18_BothSectionsScanned ==
  /\ pc = "parse"
  /\ parser.returned
  /\ \E k \in 1..Len(parser.produced) : parser.produced[k].node
  /\ \E k \in 1..Len(parser.produced) : parser.produced[k].edge

(* ------------------------ C19: the pass comes to an end ----------------- *)

SupportEdgesOfInput == { e \in SeqToSet(data.edges) : e.type = "support" }

\* the ids reached from the ids of S along support edges, source to target
RECURSIVE SupportReach(_)
SupportReach(S) ==
  LET T == S \cup { e.target : e \in { x \in SupportEdgesOfInput : x.source \in S } }
  IN IF T = S THEN S ELSE SupportReach(T)

SupportEdgesAcyclic ==
  \A e \in SupportEdgesOfInput : e.source \notin SupportReach({e.target})

\* C19: on a graph whose support edges form no cycle, hierarchy building, the
\* tree walk, the lateral loops and the global pass all come to an end,
\* whatever the explain and refute edges are: the pass never stays in
\* hierarchy(root).
C19_PassTerminates ==
  (SupportEdgesAcyclic /\ InputCarriesNone /\ InputWellFormed) => pc # "hung"

(* ------------------------ C20: the global pass -------------------------- *)

\* the moves of the global pass in the order the loops make them: the pair
\* and the position map before and after the move
RECURSIVE T_globalMoves(_, _, _, _)
T_globalMoves(st, positionArray, i, j) ==
  IF i > Len(positionArray) THEN <<>>
  ELSE IF j > Len(positionArray) THEN T_globalMoves(st, positionArray, i + 1, i + 2)
  ELSE (IF T_near(positionArray[i][2], positionArray[j][2])
        THEN <<[id1 |-> positionArray[i][1], id2 |-> positionArray[j][1],
                before |-> st.pos,
                after |-> T_globalStep(st, positionArray, i, j).pos]>>
        ELSE <<>>)
         \o T_globalMoves(T_globalStep(st, positionArray, i, j), positionArray, i, j + 1)

GlobalPassStarts == variant = "tree" /\ pc = "global"
GlobalMoves == T_globalMoves([pos |-> positions, occ |-> occupied], positions, 1, 2)

\* C20: for every pair (i before j) the global pass finds within 50 units on
\* both axes, only entry j is moved, and after the move the two entries are
\* no longer within 50 units of each other on both axes.
C20_GlobalPassSeparates ==
  GlobalPassStarts =>
    \A m \in 1..Len(GlobalMoves) :
      /\ \A k \in 1..Len(GlobalMoves[m].before) :
           GlobalMoves[m].before[k][1] # GlobalMoves[m].id2 =>
             GlobalMoves[m].after[k] = GlobalMoves[m].before[k]
      /\ ~T_near(MapGet(GlobalMoves[m].after, GlobalMoves[m].id1),
                 MapGet(GlobalMoves[m].after, GlobalMoves[m].id2))

(* ------------------------ C21: the occupied levels ---------------------- *)

\* a pass of the layout has just ended: in part_005 the tree pass, the explain
\* pass, the refute pass or the global pass, in part_004 the edge walk
PassEnded ==
  \/ variant = "tree" /\ pc \in {"explain", "refute", "anchor", "clamp"}
  \/ variant = "walk" /\ pc = "draw"

StoredLevels == { Level(positions[k][2].y) : k \in 1..Len(positions) }

\* C21: at the end of the tree pass, of the explain pass, of the refute pass
\* and of the global pass the level round(y / 50) * 50 of every stored
\* position is in the occupied-level set.
C21_StoredLevelsOccupied == PassEnded => StoredLevels \subseteq occupied

(* ------------------------ C22: the keys of the map ---------------------- *)

\* the ids of the nodes in the data prop
InputNodeIds == { heap0.objs[data.nodes[k]].id : k \in 1..Len(data.nodes) }
PositionKeys == { positions[k][1] : k \in 1..Len(positions) }

\* C22: after layout every key of the position map is the id of a node of
\* the graph given to the chart.
C22_KeysAreNodeIds == LayoutFinished => PositionKeys \subseteq InputNodeIds

====
